---- MODULE Spec2Model ----
(***************************************************************************)
(* Model of src/parser.py: parse_lua_file (literal locator, line scan,     *)
(* entity assembly) and the projection/export part of main.                *)
(*                                                                         *)
(* Text is modelled as a sequence of lexical tokens.  A token is a record  *)
(* [t, s]: t is the kind, s the payload as a sequence of one-character     *)
(* strings (the text between [" and "] of a quoted key, the digits of a    *)
(* number, the letters of a word).  The regular expressions of the source  *)
(* are operators over token sequences.                                     *)
(***************************************************************************)
EXTENDS Integers, Sequences, FiniteSets, TLC

(* ---------------------------------------------------------------- bounds *)
\* longest body (in lines) of the freely generated files
MaxBody == 3
\* largest number of entity blocks of the well-formed files
MaxEntities == 3
\* the largest gold amount of a converted price
MaxGold == 2

(* ------------------------------------------------------------ characters *)
Digits == {"0", "1", "2", "3", "4", "5", "6", "7", "8", "9"}

DigitVal(c) ==
  CASE c = "0" -> 0 [] c = "1" -> 1 [] c = "2" -> 2 [] c = "3" -> 3
    [] c = "4" -> 4 [] c = "5" -> 5 [] c = "6" -> 6 [] c = "7" -> 7
    [] c = "8" -> 8 [] c = "9" -> 9

\* str.isdigit(): non-empty and every character a digit
IsDigitStr(s) == Len(s) > 0 /\ \A i \in 1..Len(s) : s[i] \in Digits

\* int(digits)
RECURSIVE ParseInt(_)
ParseInt(ds) ==
  IF ds = <<>> THEN 0
  ELSE ParseInt(SubSeq(ds, 1, Len(ds) - 1)) * 10 + DigitVal(ds[Len(ds)])

\* Python's None and the empty string are both falsy; the code only ever
\* tests names by truthiness, and a matched name is never empty ([^"]+).
None == <<>>

(* ---------------------------------------------------------------- tokens *)
Tok(t, s) == [t |-> t, s |-> s]

START == Tok("start", <<>>)   \* AUCTIONATOR_PRICE_DATABASE =
END   == Tok("end", <<>>)     \* AUCTIONATOR_LAST_SCAN_TIME
NL    == Tok("nl", <<>>)      \* \n
SP    == Tok("sp", <<>>)      \* a run of blanks
EQ    == Tok("eq", <<>>)      \* " = "
LB    == Tok("lb", <<>>)      \* {
RB    == Tok("rb", <<>>)      \* }
COMMA == Tok("comma", <<>>)   \* ,
Key(s)  == Tok("key", s)      \* ["s"]
Num(s)  == Tok("num", s)      \* a run of digits
Word(s) == Tok("word", s)     \* other text

kLastScan == <<"l", "a", "s", "t", "S", "c", "a", "n">>
kMr       == <<"m", "r">>

(* ------------------------------------------------- ordered dictionaries  *)
\* A Python dict: a sequence of [k, v] entries in insertion order.
DictKeys(d) == [i \in 1..Len(d) |-> d[i].k]

DictHas(d, k) == \E i \in 1..Len(d) : d[i].k = k

DictIndex(d, k) == CHOOSE i \in 1..Len(d) : d[i].k = k

\* d.get(k, default)
DictGet(d, k, default) == IF DictHas(d, k) THEN d[DictIndex(d, k)].v ELSE default

\* variant: an assigned key always moves to the end
DictSet_MoveToEnd(d, k, v) ==
  Append(SelectSeq(d, LAMBDA e : e.k # k), [k |-> k, v |-> v])

\* d[k] = v : an existing key keeps its position, a new key is appended
DictSet(d, k, v) ==
  IF DictHas(d, k)
  THEN [i \in 1..Len(d) |-> IF d[i].k = k THEN [k |-> k, v |-> v] ELSE d[i]]
  ELSE Append(d, [k |-> k, v |-> v])

(* ------------------------------------------------------- text and lines  *)
\* '\n'.join(lines)
RECURSIVE Join(_)
Join(ls) ==
  IF ls = <<>> THEN <<>>
  ELSE IF Len(ls) = 1 THEN ls[1]
  ELSE ls[1] \o <<NL>> \o Join(Tail(ls))

\* text.split('\n')
RECURSIVE Split(_)
Split(c) ==
  IF \A i \in 1..Len(c) : c[i] # NL THEN <<c>>
  ELSE LET n == CHOOSE i \in 1..Len(c) :
                  c[i] = NL /\ \A h \in 1..(i - 1) : c[h] # NL
       IN  <<SubSeq(c, 1, n - 1)>> \o Split(SubSeq(c, n + 1, Len(c)))

Min(S) == CHOOSE x \in S : \A y \in S : x <= y

(* ------------------------------------------------------ literal locator  *)
\* variant: the brace after the start marker is not required
StartPositions_NoBrace(c) == {i \in 1..(Len(c) - 1) : c[i] = START}

\* positions where 'AUCTIONATOR_PRICE_DATABASE = ' is directly followed by {
StartPositions(c) == {i \in 1..(Len(c) - 1) : c[i] = START /\ c[i + 1] = LB}

\* variant: the end marker may follow any line, not only a closing brace
EndPositions_AnyLine(c, i) ==
  {j \in (i + 2)..(Len(c) - 2) : c[j + 1] = NL /\ c[j + 2] = END}

\* positions after the brace of i of a } directly followed by
\* '\nAUCTIONATOR_LAST_SCAN_TIME'
EndPositions(c, i) ==
  {j \in (i + 2)..(Len(c) - 2) : c[j] = RB /\ c[j + 1] = NL /\ c[j + 2] = END}

\* re.search(r'AUCTIONATOR_PRICE_DATABASE = ({.*?})\nAUCTIONATOR_LAST_SCAN_TIME',
\*           content, re.DOTALL): leftmost start, shortest body; group(1)
SearchDatabase(c) ==
  LET starts == {i \in StartPositions(c) : EndPositions(c, i) # {}}
  IN  IF starts = {} THEN [ok |-> FALSE, data |-> <<>>]
      ELSE LET i == Min(starts)
               j == Min(EndPositions(c, i))
           IN  [ok |-> TRUE, data |-> SubSeq(c, i + 1, j)]

\* the pattern \["([^"]+)"\] = { at position p of a token sequence
KeyOpensAt(ts, p) ==
  /\ p + 2 <= Len(ts)
  /\ ts[p].t = "key" /\ Len(ts[p].s) > 0
  /\ ts[p + 1] = EQ
  /\ ts[p + 2] = LB

\* variant: the last match instead of the first
RealmSearch_Last(data) ==
  LET ps == {p \in 1..Len(data) : KeyOpensAt(data, p)}
  IN  IF ps = {} THEN None
      ELSE data[CHOOSE p \in ps : \A q \in ps : q <= p].s

\* re.search(r'\["([^"]+)"\] = {', lua_data): name of the first match, or None
RealmSearch(data) ==
  LET ps == {p \in 1..Len(data) : KeyOpensAt(data, p)}
  IN  IF ps = {} THEN None ELSE data[Min(ps)].s

(* ------------------------------------------------------ line classifier  *)
\* number of leading blank tokens (\s*)
RECURSIVE LeadingBlanks(_)
LeadingBlanks(line) ==
  IF line # <<>> /\ line[1] = SP THEN 1 + LeadingBlanks(Tail(line)) ELSE 0

\* re.match(r'\s*\["([^"]+)"\] = {', line): the name, or None
ItemNameMatch(line) ==
  LET p == LeadingBlanks(line) + 1
  IN  IF KeyOpensAt(line, p) THEN line[p].s ELSE None

\* number of '[' in a run of characters
RECURSIVE CountChar(_, _)
CountChar(s, ch) ==
  IF s = <<>> THEN 0
  ELSE (IF s[1] = ch THEN 1 ELSE 0) + CountChar(Tail(s), ch)

\* line.count('['): one for each quoted key, plus those inside payloads
RECURSIVE CountBrackets(_)
CountBrackets(line) ==
  IF line = <<>> THEN 0
  ELSE (IF line[1].t = "key" THEN 1 ELSE 0)
       + CountChar(line[1].s, "[") + CountBrackets(Tail(line))

\* variant: the count of '[' is not tested
IsItemOpen_AnyCount(line) == ItemNameMatch(line) # None

\* item_name_match and line.count('[') == 1
IsItemOpen(line) == ItemNameMatch(line) # None /\ CountBrackets(line) = 1

\* line.strip()
RECURSIVE RStrip(_)
RStrip(line) ==
  IF line # <<>> /\ line[Len(line)] = SP
  THEN RStrip(SubSeq(line, 1, Len(line) - 1)) ELSE line

Strip(line) ==
  LET n == LeadingBlanks(line) IN RStrip(SubSeq(line, n + 1, Len(line)))

\* line.strip() == '},'
IsTerminator(line) == Strip(line) = <<RB, COMMA>>

(* ------------------------------------------------------- field extractor *)
NoMatch == [ok |-> FALSE, key |-> <<>>, val |-> <<>>]

IsLastScanKey(s) == s = kLastScan

IsMrKey(s) == s = kMr

\* the key pattern H\d+ of line 61
IsHistPatternKey(s) == Len(s) > 1 /\ s[1] = "H" /\ IsDigitStr(Tail(s))

\* the quoted keys a key pattern admits
KeyAccepted(pattern, s) ==
  CASE pattern = "lastScan" -> IsLastScanKey(s)
    [] pattern = "mr"       -> IsMrKey(s)
    [] pattern = "H\\d+"    -> IsHistPatternKey(s)

\* re.search(r'\["<pattern>"\] = (\d+)', line): the leftmost quoted key the
\* pattern admits that is followed by ' = ' and a run of digits
SearchField(line, pattern) ==
  LET ps == {p \in 1..(Len(line) - 2) :
               /\ line[p].t = "key" /\ KeyAccepted(pattern, line[p].s)
               /\ line[p + 1] = EQ
               /\ line[p + 2].t = "num" /\ IsDigitStr(line[p + 2].s)}
  IN  IF ps = {} THEN NoMatch
      ELSE [ok |-> TRUE, key |-> line[Min(ps)].s, val |-> line[Min(ps) + 2].s]

ScanMatch(line) == SearchField(line, "lastScan")

MrMatch(line) == SearchField(line, "mr")

HistMatch(line) == SearchField(line, "H\\d+")

\* variant: a field that is already stored keeps its first value
StoreMatch_KeepFirst(data, m) ==
  IF m.ok /\ ~DictHas(data, m.key) THEN DictSet(data, m.key, ParseInt(m.val)) ELSE data

StoreMatch(data, m) == IF m.ok THEN DictSet(data, m.key, ParseInt(m.val)) ELSE data

\* lines 51-63: every pattern that matches stores its field
ExtractFields(data, line) ==
  StoreMatch(StoreMatch(StoreMatch(data, ScanMatch(line)), MrMatch(line)),
             HistMatch(line))

(* ------------------------------------------------------ entity assembler *)
\* variant: the previous item is saved even when nothing was collected
SavePrevious_Unchecked(its, name, data) ==
  IF name # None THEN DictSet(its, name, data) ELSE its

\* lines 41-42: if current_item_name and current_item_data: items[name] = data
SavePrevious(its, name, data) ==
  IF name # None /\ Len(data) > 0 THEN DictSet(its, name, data) ELSE its

\* variant: the closed item is saved even when nothing was collected
SaveOnClose_Unchecked(its, name, data) == DictSet(its, name, data)

\* variant: a name that items already holds is not overwritten
SaveOnClose_KeepFirst(its, name, data) ==
  IF Len(data) > 0 /\ ~DictHas(its, name) THEN DictSet(its, name, data) ELSE its

\* variant: the commit rebuilds items from the closed item alone
SaveOnClose_Rebuild(its, name, data) ==
  IF Len(data) > 0 THEN <<[k |-> name, v |-> data]>> ELSE its

\* lines 67-68: if current_item_data: items[current_item_name] = data
SaveOnClose(its, name, data) ==
  IF Len(data) > 0 THEN DictSet(its, name, data) ELSE its

(* ------------------------------------------------------ record projector *)
\* key.startswith('H') and key[1:].isdigit()
IsHistoryKey(k) == Len(k) > 0 /\ k[1] = "H" /\ IsDigitStr(Tail(k))

\* lines 112-114: the entries of item_data with a history key, in order
History(data) == SelectSeq(data, LAMBDA e : IsHistoryKey(e.k))

\* lines 104-109
ItemEntry(name, data) ==
  [name     |-> name,
   lastScan |-> DictGet(data, kLastScan, 0),
   mr       |-> DictGet(data, kMr, 0),
   history  |-> History(data)]

\* variant: items that lack lastScan or mr are left out
Project_SkipIncomplete(data) ==
  LET kept == SelectSeq(data.items,
                        LAMBDA e : DictHas(e.v, kLastScan) /\ DictHas(e.v, kMr))
  IN  [realm |-> data.realm,
       items |-> [i \in 1..Len(kept) |-> ItemEntry(kept[i].k, kept[i].v)]]

\* lines 98-116
Project(data) ==
  [realm |-> data.realm,
   items |-> [i \in 1..Len(data.items) |->
                ItemEntry(data.items[i].k, data.items[i].v)]]

(* ------------------------------------------------------------ input files *)
nA == <<"A">>
nB == <<"B">>
nRealm == <<"R", "e", "a", "l", "m", "1">>
nWidget == <<"W", "i", "d", "g", "e", "t">>

\* AUCTIONATOR_PRICE_DATABASE = {
StartLine == <<START, LB>>
\* AUCTIONATOR_PRICE_DATABASE = {}
StartEmptyLine == <<START, LB, RB>>
\* AUCTIONATOR_PRICE_DATABASE = nil
StartNilLine == <<START, Word(<<"n", "i", "l">>)>>
\* x = 1 AUCTIONATOR_PRICE_DATABASE = {
StartMidLine == <<Word(<<"x">>), EQ, Num(<<"1">>), SP, START, LB>>
\* AUCTIONATOR_LAST_SCAN_TIME = 99999
EndLine == <<END, EQ, Num(<<"9", "9", "9", "9", "9">>)>>
\* the same, indented
EndIndentedLine == <<SP>> \o EndLine
\* }
CloseLine == <<RB>>
\* } followed by a blank
CloseBlankLine == <<RB, SP>>
\*   ["name"] = {
OpenLine(n) == <<SP, Key(n), EQ, LB>>
\*   ["key"] = digits,
FieldLine(k, v) == <<SP, Key(k), EQ, Num(v), COMMA>>
\*   },
TermLine == <<SP, RB, COMMA>>
\*   ["A"] = {["mr"] = 9},
NestedLine == <<SP, Key(nA), EQ, LB, Key(kMr), EQ, Num(<<"9">>), RB, COMMA>>
\*   ["[x"] = {
BracketNameLine == <<SP, Key(<<"[", "x">>), EQ, LB>>
\*   {
BraceLine == <<SP, LB>>
\*   ["mr"] = 7}
FieldCloseLine == <<SP, Key(kMr), EQ, Num(<<"7">>), RB>>
\*   ["mr"] = x,
BadValueLine == <<SP, Key(kMr), EQ, Word(<<"x">>), COMMA>>

fLastScan == FieldLine(kLastScan, <<"1", "2">>)
fMr5 == FieldLine(kMr, <<"5">>)
fMr07 == FieldLine(kMr, <<"0", "7">>)
fH1 == FieldLine(<<"H", "1">>, <<"4", "8">>)
fL1 == FieldLine(<<"L", "1">>, <<"5", "1">>)

\* the lines a freely generated body is made of
Vocabulary ==
  {OpenLine(nA), OpenLine(nB), fLastScan, fMr5, fH1, fL1, TermLine, NestedLine}

SeqsUpTo(S, n) == UNION {[1..k -> S] : k \in 0..n}

RECURSIVE Flatten(_)
Flatten(ss) == IF Len(ss) = 0 THEN <<>> ELSE ss[1] \o Flatten(Tail(ss))

\* any lines between the opening line and the closing brace
FreeFiles ==
  {<<StartLine>> \o b \o <<CloseLine, EndLine>> : b \in SeqsUpTo(Vocabulary, MaxBody)}

\* an entity: its open line, its field lines, its terminator
Block(n, fs) == <<OpenLine(n)>> \o fs \o <<TermLine>>

FieldChoices == {<<>>, <<fLastScan>>, <<fMr5, fMr07>>}

Blocks == {Block(n, fs) : n \in {nA, nB}, fs \in FieldChoices}

\* a scope holding entity blocks
WellFormedFiles ==
  {<<StartLine, OpenLine(nRealm)>> \o Flatten(bs) \o <<TermLine, CloseLine, EndLine>> :
     bs \in SeqsUpTo(Blocks, MaxEntities)}

Headers ==
  {<<StartLine>>, <<StartEmptyLine>>, <<StartNilLine>>, <<StartMidLine>>, <<>>,
   <<EndLine, StartLine>>}

Footers ==
  {<<CloseLine, EndLine>>, <<EndLine>>, <<CloseLine>>, <<>>,
   <<CloseLine, EndIndentedLine>>, <<CloseBlankLine, EndLine>>,
   <<CloseLine, EndLine, CloseLine, EndLine>>}

ProbeBodies ==
  {<<>>,
   <<OpenLine(nA), fMr5, TermLine>>,
   <<BadValueLine, TermLine>>,
   <<OpenLine(nB), BracketNameLine, fMr5, TermLine>>,
   <<OpenLine(nA), fLastScan, OpenLine(nB), TermLine>>,
   <<OpenLine(nA), fMr5, TermLine, fLastScan, TermLine>>,
   <<BraceLine, OpenLine(nA), fMr5, TermLine, TermLine, OpenLine(nB), fMr5, TermLine>>,
   <<OpenLine(nA), fLastScan, FieldCloseLine>>,
   <<OpenLine(nA), fMr5, TermLine, OpenLine(nA), fLastScan, FieldCloseLine>>}

\* files that vary the markers around a short body
LocatorFiles == {h \o b \o f : h \in Headers, b \in ProbeBodies, f \in Footers}

\* the minimal literal of the documentation
MinimalFile ==
  << StartLine,
     OpenLine(nRealm),
     OpenLine(nWidget),
     FieldLine(kLastScan, <<"1", "2", "3", "4", "5">>),
     FieldLine(kMr, <<"5", "0", "0", "0">>),
     FieldLine(<<"H", "5", "5", "5", "3">>, <<"4", "8", "0", "0">>),
     FieldLine(<<"H", "5", "5", "5", "4">>, <<"5", "1", "0", "0">>),
     TermLine,
     TermLine,
     CloseLine,
     EndLine >>

Files == FreeFiles \cup WellFormedFiles \cup LocatorFiles \cup {MinimalFile}

(* ----------------------------------------------------------------- state *)
VARIABLES
  content,            \* the text of Auctionator.lua
  pc,                 \* "start", "scan", "returned", "exported", "raised"
  lines,              \* lua_data.split('\n')
  pos,                \* index in lines of the line the loop reads next
  current_realm,
  items,
  current_item_name,
  current_item_data,
  data,               \* what parse_lua_file returned to main
  output,             \* what main dumped to price_data.json, or NoFile
  copper,             \* the argument of convert_copper_to_gold
  shown               \* the string it returned, or None before the call

vars == <<content, pc, lines, pos, current_realm, items, current_item_name,
          current_item_data, data, output, copper, shown>>

\* variant: the dict returned when nothing is found has both keys
EmptyDict_WithKeys == [keys |-> {"realm", "items"}, realm |-> None, items |-> <<>>]

\* the empty dict {} of line 17
EmptyDict == [keys |-> {}, realm |-> None, items |-> <<>>]

\* the dict of lines 72-75
ParsedDict(realm, its) == [keys |-> {"realm", "items"}, realm |-> realm, items |-> its]

NoFile == [realm |-> None, items |-> <<>>, written |-> FALSE]

Written(o) == [realm |-> o.realm, items |-> o.items, written |-> TRUE]

Init ==
  /\ content \in {Join(f) : f \in Files}
  /\ pc = "start"
  /\ lines = <<>>
  /\ pos = 0
  /\ current_realm = None
  /\ items = <<>>
  /\ current_item_name = None
  /\ current_item_data = <<>>
  /\ data = EmptyDict
  /\ output = NoFile
  /\ copper = 0
  /\ shown = None

(* --------------------------------------------------------------- actions *)
\* lines 8-17: the literal is not found
ParseNotFound ==
  /\ pc = "start"
  /\ ~SearchDatabase(content).ok
  /\ data' = EmptyDict
  /\ pc' = "returned"
  /\ UNCHANGED <<content, lines, pos, current_realm, items, current_item_name,
                 current_item_data, output>>
  /\ UNCHANGED <<copper, shown>>

\* lines 8-34: the literal is found; realm and loop state are set up
ParseLocate ==
  /\ pc = "start"
  /\ SearchDatabase(content).ok
  /\ LET lua_data == SearchDatabase(content).data
     IN  /\ current_realm' = RealmSearch(lua_data)
         /\ lines' = Split(lua_data)
  /\ items' = <<>>
  /\ current_item_name' = None
  /\ current_item_data' = <<>>
  /\ pos' = 1
  /\ pc' = "scan"
  /\ UNCHANGED <<content, data, output>>
  /\ UNCHANGED <<copper, shown>>

\* variant: opening an item does not empty the accumulator
ScanOpen_KeepsFields ==
  /\ pc = "scan" /\ pos <= Len(lines)
  /\ IsItemOpen(lines[pos])
  /\ items' = SavePrevious(items, current_item_name, current_item_data)
  /\ current_item_name' = ItemNameMatch(lines[pos])
  /\ pos' = pos + 1
  /\ UNCHANGED <<content, pc, lines, current_realm, current_item_data, data, output>>
  /\ UNCHANGED <<copper, shown>>

\* lines 38-46: the line opens an item
ScanOpen ==
  /\ pc = "scan" /\ pos <= Len(lines)
  /\ IsItemOpen(lines[pos])
  /\ items' = SavePrevious(items, current_item_name, current_item_data)
  /\ current_item_name' = ItemNameMatch(lines[pos])
  /\ current_item_data' = <<>>
  /\ pos' = pos + 1
  /\ UNCHANGED <<content, pc, lines, current_realm, data, output>>
  /\ UNCHANGED <<copper, shown>>

\* lines 49-70: a line read while an item is open
ScanField ==
  /\ pc = "scan" /\ pos <= Len(lines)
  /\ ~IsItemOpen(lines[pos])
  /\ current_item_name # None
  /\ LET collected == ExtractFields(current_item_data, lines[pos])
     IN  IF IsTerminator(lines[pos])
         THEN /\ items' = SaveOnClose(items, current_item_name, collected)
              /\ current_item_name' = None
              /\ current_item_data' = <<>>
         ELSE /\ current_item_data' = collected
              /\ UNCHANGED <<items, current_item_name>>
  /\ pos' = pos + 1
  /\ UNCHANGED <<content, pc, lines, current_realm, data, output>>
  /\ UNCHANGED <<copper, shown>>

\* variant: fields are extracted although no item is open
ScanSkip_Extracts ==
  /\ pc = "scan" /\ pos <= Len(lines)
  /\ ~IsItemOpen(lines[pos])
  /\ current_item_name = None
  /\ current_item_data' = ExtractFields(current_item_data, lines[pos])
  /\ pos' = pos + 1
  /\ UNCHANGED <<content, pc, lines, current_realm, items, current_item_name,
                 data, output>>
  /\ UNCHANGED <<copper, shown>>

\* line 49 false: a line read while no item is open
ScanSkip ==
  /\ pc = "scan" /\ pos <= Len(lines)
  /\ ~IsItemOpen(lines[pos])
  /\ current_item_name = None
  /\ pos' = pos + 1
  /\ UNCHANGED <<content, pc, lines, current_realm, items, current_item_name,
                 current_item_data, data, output>>
  /\ UNCHANGED <<copper, shown>>

\* variant: the item still open after the last line is saved on return
ParseReturn_Flush ==
  /\ pc = "scan" /\ pos > Len(lines)
  /\ data' = ParsedDict(current_realm,
                        SavePrevious(items, current_item_name, current_item_data))
  /\ pc' = "returned"
  /\ UNCHANGED <<content, lines, pos, current_realm, items, current_item_name,
                 current_item_data, output>>
  /\ UNCHANGED <<copper, shown>>

\* lines 72-75
ParseReturn ==
  /\ pc = "scan" /\ pos > Len(lines)
  /\ data' = ParsedDict(current_realm, items)
  /\ pc' = "returned"
  /\ UNCHANGED <<content, lines, pos, current_realm, items, current_item_name,
                 current_item_data, output>>
  /\ UNCHANGED <<copper, shown>>

\* lines 94-120: the record set is built and dumped
MainExport ==
  /\ pc = "returned"
  /\ "items" \in data.keys
  /\ output' = Written(Project(data))
  /\ pc' = "exported"
  /\ UNCHANGED <<content, lines, pos, current_realm, items, current_item_name,
                 current_item_data, data>>
  /\ UNCHANGED <<copper, shown>>

\* line 95: data['items'] of the empty dict raises KeyError
MainKeyError ==
  /\ pc = "returned"
  /\ "items" \notin data.keys
  /\ pc' = "raised"
  /\ UNCHANGED <<content, lines, pos, current_realm, items, current_item_name,
                 current_item_data, data, output>>
  /\ UNCHANGED <<copper, shown>>

Next ==
  \/ ParseNotFound
  \/ ParseLocate
  \/ ScanOpen
  \/ ScanField
  \/ ScanSkip
  \/ ParseReturn
  \/ MainExport
  \/ MainKeyError

Spec == Init /\ [][Next]_vars

(* ------------------------------------------------- convert_copper_to_gold *)
\* the decimal digit of d, 0 <= d <= 9
DigitChar(d) == CHOOSE c \in Digits : DigitVal(c) = d

\* f"{n}" of a non-negative int
RECURSIVE FormatInt(_)
FormatInt(n) ==
  IF n < 10 THEN <<DigitChar(n)>>
  ELSE FormatInt(n \div 10) \o <<DigitChar(n % 10)>>

\* variant: silver is not reduced below one gold
convert_copper_to_gold_NoWrap(c) ==
  LET gold == c \div 10000
      silver == c \div 100
      copper_remainder == c % 100
  IN  IF gold > 0
      THEN FormatInt(gold) \o <<"g", " ">> \o FormatInt(silver) \o <<"s", " ">>
           \o FormatInt(copper_remainder) \o <<"c">>
      ELSE IF silver > 0
      THEN FormatInt(silver) \o <<"s", " ">> \o FormatInt(copper_remainder) \o <<"c">>
      ELSE FormatInt(copper_remainder) \o <<"c">>

\* lines 77-88
convert_copper_to_gold(c) ==
  LET gold == c \div 10000
      silver == (c % 10000) \div 100
      copper_remainder == c % 100
  IN  IF gold > 0
      THEN FormatInt(gold) \o <<"g", " ">> \o FormatInt(silver) \o <<"s", " ">>
           \o FormatInt(copper_remainder) \o <<"c">>
      ELSE IF silver > 0
      THEN FormatInt(silver) \o <<"s", " ">> \o FormatInt(copper_remainder) \o <<"c">>
      ELSE FormatInt(copper_remainder) \o <<"c">>

\* the prices handed to the conversion
CopperInputs == 0..(MaxGold * 10000 + 9999)

InitCopper ==
  /\ content = Join(MinimalFile)
  /\ pc = "start"
  /\ lines = <<>>
  /\ pos = 0
  /\ current_realm = None
  /\ items = <<>>
  /\ current_item_name = None
  /\ current_item_data = <<>>
  /\ data = EmptyDict
  /\ output = NoFile
  /\ copper \in CopperInputs
  /\ shown = None

\* one call of convert_copper_to_gold
Convert ==
  /\ shown = None
  /\ shown' = convert_copper_to_gold(copper)
  /\ UNCHANGED <<content, pc, lines, pos, current_realm, items, current_item_name,
                 current_item_data, data, output, copper>>

NextCopper == Convert

SpecCopper == InitCopper /\ [][NextCopper]_vars

(* ------------------------------------------- reading the scanned literal *)
\* The definitions below describe the literal in `lines` from the outside:
\* where entities are opened, where they end, what lies in between.

Opens == {p \in 1..Len(lines) : IsItemOpen(lines[p])}

NameAt(p) == ItemNameMatch(lines[p])

\* the lines after p that end the entity opened at p
Closers(p) ==
  {q \in (p + 1)..Len(lines) : IsItemOpen(lines[q]) \/ IsTerminator(lines[q])}

Closed(p) == Closers(p) # {}

Closer(p) == Min(Closers(p))

\* the lines between the open line p and the line that ends it
Span(p) == (p + 1)..(Closer(p) - 1)

IsFieldLine(line) == ScanMatch(line).ok \/ MrMatch(line).ok \/ HistMatch(line).ok

HasField(p) == \E r \in Span(p) : IsFieldLine(lines[r])

\* the entity opened at p has been ended by a line the loop has read
Ended(p) == Closed(p) /\ Closer(p) < pos

\* every opened entity is ended inside the literal: by its terminator line,
\* or (as the scope line of the documented literal) by the next open line
WellFormed == \A p \in Opens : Closed(p)

Found == pc = "scan" \/ (pc \in {"returned", "exported"} /\ "items" \in data.keys)

Returned == pc \in {"returned", "exported"} /\ "items" \in data.keys

Records(its, n) == {i \in 1..Len(its) : its[i].k = n}

(* ---------------------------------------------------------------- claims *)

\* C1: in a well-formed literal, once all lines are scanned, a name opened
\* with at least one recognized field line before its closing line is a key
\* of the returned items exactly once, and every key of the returned items
\* is the name of such an entity: an entity without a recognized field line
\* contributes no record.
C1_FieldedEntitiesPresentOnce ==
  (Returned /\ WellFormed) =>
     /\ \A p \in Opens :
          HasField(p) => Cardinality(Records(data.items, NameAt(p))) = 1
     /\ \A i \in 1..Len(data.items) :
          \E p \in Opens : NameAt(p) = data.items[i].k /\ HasField(p)
     /\ \A p \in Opens :
          (~HasField(p) /\ \A q \in Opens : NameAt(q) = NameAt(p) => q = p)
             => Records(data.items, NameAt(p)) = {}

\* a well-formed literal with a fielded entity A and a field-less entity B
C1_Witness ==
  /\ Returned /\ WellFormed
  /\ \E p, q \in Opens :
       /\ NameAt(p) = nA /\ HasField(p)
       /\ NameAt(q) = nB /\ ~HasField(q) /\ IsTerminator(lines[Closer(q)])
       /\ \A r \in Opens : NameAt(r) = nB => r = q
  /\ Records(data.items, nA) # {}

\* C8: in every state of the scan every record of items has at least one
\* field; an entity ended with an empty accumulator is never written.
C8_NoEmptyRecord ==
  \A i \in 1..Len(items) : Len(items[i].v) > 0

\* a field-less entity was ended by a terminator, another by a re-open
C8_Witness ==
  /\ pc = "scan"
  /\ \E p, q \in Opens :
       /\ Ended(p) /\ ~HasField(p) /\ IsTerminator(lines[Closer(p)])
       /\ Ended(q) /\ ~HasField(q) /\ IsItemOpen(lines[Closer(q)])
  /\ Len(items) > 0

Letters ==
  {"a", "b", "c", "d", "e", "f", "g", "h", "i", "j", "k", "l", "m", "n", "o",
   "p", "q", "r", "s", "t", "u", "v", "w", "x", "y", "z",
   "A", "B", "C", "D", "E", "F", "G", "H", "I", "J", "K", "L", "M", "N", "O",
   "P", "Q", "R", "S", "T", "U", "V", "W", "X", "Y", "Z"}

\* the documented shape ^[A-Za-z]+\d+$ of a dynamic series key
IsSeriesKey(s) ==
  \E n \in 1..(Len(s) - 1) :
     /\ \A i \in 1..n : s[i] \in Letters
     /\ \A i \in (n + 1)..Len(s) : s[i] \in Digits

\* the leftmost field of a line whose key has the documented shape and whose
\* value is a run of digits
SeriesMatch(line) ==
  LET ps == {p \in 1..(Len(line) - 2) :
               /\ line[p].t = "key" /\ IsSeriesKey(line[p].s)
               /\ line[p + 1] = EQ
               /\ line[p + 2].t = "num" /\ IsDigitStr(line[p + 2].s)}
  IN  IF ps = {} THEN NoMatch
      ELSE [ok |-> TRUE, key |-> line[Min(ps)].s, val |-> line[Min(ps) + 2].s]

OpenedOnce(p) == \A q \in Opens : NameAt(q) = NameAt(p) => q = p

\* C2 (as claimed): every field line of an entity whose key has the shape
\* ^[A-Za-z]+\d+$ and whose value is a run of digits puts that key with that
\* integer in the history of the entity's projected record (the last line
\* of a key counting), and every key of a history has that shape.
C2_EverySeriesKeyInHistory ==
  pc = "exported" =>
    /\ \A p \in Opens :
         (Closed(p) /\ OpenedOnce(p)) =>
            \A r \in Span(p) :
               LET m == SeriesMatch(lines[r])
               IN  (/\ m.ok
                    /\ \A r2 \in Span(p) :
                         (r2 > r /\ SeriesMatch(lines[r2]).ok)
                            => SeriesMatch(lines[r2]).key # m.key)
                   => \E i \in 1..Len(output.items) :
                         /\ output.items[i].name = NameAt(p)
                         /\ DictHas(output.items[i].history, m.key)
                         /\ DictGet(output.items[i].history, m.key, 0) = ParseInt(m.val)
    /\ \A i \in 1..Len(output.items) :
         \A j \in 1..Len(output.items[i].history) :
            IsSeriesKey(output.items[i].history[j].k)

\* the fields the lines of the entity opened at p yield, from an empty record
RECURSIVE CollectFrom(_, _, _)
CollectFrom(acc, r, last) ==
  IF r > last THEN acc ELSE CollectFrom(ExtractFields(acc, lines[r]), r + 1, last)

Collected(p) == CollectFrom(<<>>, p + 1, Closer(p) - 1)

Max(S) == CHOOSE x \in S : \A y \in S : y <= x

EndedOpens(n) == {p \in Opens : NameAt(p) = n /\ Ended(p)}

Names == {NameAt(p) : p \in Opens}

\* C3 (as claimed): once a name has been opened and ended twice, items holds
\* exactly one record under it, with the fields of the later occurrence only.
C3_SecondOccurrenceOnly ==
  \A n \in Names :
     Cardinality(EndedOpens(n)) >= 2 =>
        /\ Cardinality(Records(items, n)) = 1
        /\ DictGet(items, n, <<>>) = Collected(Max(EndedOpens(n)))

\* C3 (amended): the same, when the later occurrence collected a field; a
\* field-less later occurrence is dropped and changes nothing.
C3_SecondOccurrenceWithFields ==
  \A n \in Names :
     (/\ Cardinality(EndedOpens(n)) >= 2
      /\ Len(Collected(Max(EndedOpens(n)))) > 0) =>
        /\ Cardinality(Records(items, n)) = 1
        /\ DictGet(items, n, <<>>) = Collected(Max(EndedOpens(n)))

\* A was opened and ended twice with different fields, ended by a terminator
C3_Witness ==
  /\ Cardinality(EndedOpens(nA)) >= 2
  /\ \E p \in EndedOpens(nA) :
       /\ p # Max(EndedOpens(nA))
       /\ Len(Collected(p)) > 0
       /\ \A i \in 1..Len(Collected(p)) :
            ~DictHas(Collected(Max(EndedOpens(nA))), Collected(p)[i].k)
  /\ Len(Collected(Max(EndedOpens(nA)))) > 0
  /\ IsTerminator(lines[Closer(Max(EndedOpens(nA)))])
  /\ Records(items, nA) # {}

(* the file seen line by line *)
FileLines == Split(content)

HasStartAt(L, a) ==
  \E col \in 1..(Len(L[a]) - 1) : L[a][col] = START /\ L[a][col + 1] = LB

StartCol(L, a) ==
  Min({col \in 1..(Len(L[a]) - 1) : L[a][col] = START /\ L[a][col + 1] = LB})

\* lines after a that begin with the end marker
MarkerEnds(L, a) ==
  {b \in (a + 1)..Len(L) : Len(L[b]) > 0 /\ L[b][1] = END}

\* those whose preceding line ends with a closing brace that stands after
\* the opening brace
BraceEnds(L, a) ==
  {b \in MarkerEnds(L, a) :
     /\ Len(L[b - 1]) > 0
     /\ L[b - 1][Len(L[b - 1])] = RB
     /\ (b - 1 = a => Len(L[a]) >= StartCol(L, a) + 2)}

LiteralLines(L, a, b) ==
  <<SubSeq(L[a], StartCol(L, a) + 1, Len(L[a]))>> \o SubSeq(L, a + 1, b - 1)

MarkersInOrder(L) == \E a \in 1..Len(L) : HasStartAt(L, a) /\ MarkerEnds(L, a) # {}

\* C4: when the start marker (with its brace) or a later end-marker line is
\* missing, parse_lua_file returns the empty dict: no realm, no items, no
\* line scanned, no loop state touched.
C4_MissingMarkerEmpty ==
  (pc # "start" /\ ~MarkersInOrder(FileLines)) =>
     /\ pc \in {"returned", "raised"}
     /\ data = EmptyDict
     /\ lines = <<>> /\ pos = 0
     /\ items = <<>> /\ current_realm = None
     /\ current_item_name = None /\ current_item_data = <<>>

\* parse_lua_file has returned on a file that has an item but misses a marker
C4_Witness ==
  /\ pc = "returned"
  /\ ~MarkersInOrder(FileLines)
  /\ \E a \in 1..Len(FileLines) : IsItemOpen(FileLines[a])
  /\ \E a \in 1..Len(FileLines) : HasStartAt(FileLines, a)
  /\ data = EmptyDict

\* C9 (as claimed): the literal is found exactly when a start marker with
\* its brace is followed by a line that begins with the end marker, and it
\* then runs from the brace to the line before the first such line.
C9_FoundByMarkersAlone ==
  pc # "start" =>
    LET L == FileLines
        as == {a \in 1..Len(L) : HasStartAt(L, a) /\ MarkerEnds(L, a) # {}}
    IN  /\ Found <=> as # {}
        /\ Found => lines = LiteralLines(L, Min(as), Min(MarkerEnds(L, Min(as))))

\* C9 (amended): the literal is found exactly when a start marker with its
\* brace is followed by a line that begins with the end marker and whose
\* preceding line ends with a closing brace (after the opening one); it then
\* runs from the brace of the first such start marker to the closing brace
\* before the first such end-marker line.
C9_FoundByBraceBeforeMarker ==
  pc # "start" =>
    LET L == FileLines
        as == {a \in 1..Len(L) : HasStartAt(L, a) /\ BraceEnds(L, a) # {}}
    IN  /\ Found <=> as # {}
        /\ Found => lines = LiteralLines(L, Min(as), Min(BraceEnds(L, Min(as))))

\* the literal of a start marker that stands in the middle of its line was
\* found and has lines of its own
C9_Witness ==
  /\ pc = "scan"
  /\ LET L == FileLines
         as == {a \in 1..Len(L) : HasStartAt(L, a) /\ BraceEnds(L, a) # {}}
     IN  /\ as # {}
         /\ Len(lines) >= 3
         /\ StartCol(L, Min(as)) > 1

FieldOr0(rec, k) == IF DictHas(rec, k) THEN rec[DictIndex(rec, k)].v ELSE 0

\* the only field line of the entity opened at p is a lastScan line
OnlyLastScan(p) ==
  \E r \in Span(p) :
     /\ ScanMatch(lines[r]).ok
     /\ ~MrMatch(lines[r]).ok /\ ~HistMatch(lines[r]).ok
     /\ \A r2 \in Span(p) : r2 # r => ~IsFieldLine(lines[r2])

LastScanOf(p) ==
  LET r == CHOOSE r \in Span(p) : ScanMatch(lines[r]).ok
  IN  ParseInt(ScanMatch(lines[r]).val)

\* C5: every committed entity has a projected record whose lastScan and mr
\* are the collected values, 0 where none was collected; an entity whose
\* only field line is lastScan is kept, with mr 0 and an empty history.
C5_MissingFixedFieldsDefaultTo0 ==
  pc = "exported" =>
    /\ \A i \in 1..Len(items) :
         \E j \in 1..Len(output.items) :
            /\ output.items[j].name = items[i].k
            /\ output.items[j].lastScan = FieldOr0(items[i].v, kLastScan)
            /\ output.items[j].mr = FieldOr0(items[i].v, kMr)
    /\ \A p \in Opens :
         (Closed(p) /\ OpenedOnce(p) /\ OnlyLastScan(p)) =>
            \E j \in 1..Len(output.items) :
               /\ output.items[j].name = NameAt(p)
               /\ output.items[j].lastScan = LastScanOf(p)
               /\ output.items[j].mr = 0
               /\ output.items[j].history = <<>>

\* exported: one entity with lastScan only, one with mr but no lastScan
C5_Witness ==
  /\ pc = "exported"
  /\ \E p \in Opens : Closed(p) /\ OpenedOnce(p) /\ OnlyLastScan(p)
  /\ \E j \in 1..Len(output.items) :
       output.items[j].lastScan = 0 /\ output.items[j].mr > 0

kH5553 == <<"H", "5", "5", "5", "3">>
kH5554 == <<"H", "5", "5", "5", "4">>

\* C6: the minimal literal of the documentation yields realm Realm1 and the
\* single item Widget with lastScan 12345, mr 5000 and the history
\* H5553: 4800, H5554: 5100; the scope name is no item.
C6_MinimalLiteral ==
  (content = Join(MinimalFile) /\ pc = "exported") =>
     output = Written([realm |-> nRealm,
                       items |-> << [name     |-> nWidget,
                                     lastScan |-> 12345,
                                     mr       |-> 5000,
                                     history  |-> << [k |-> kH5553, v |-> 4800],
                                                     [k |-> kH5554, v |-> 5100] >>] >>])

\* the minimal literal was parsed and exported
C6_Witness ==
  /\ content = Join(MinimalFile)
  /\ pc = "exported"
  /\ output.written
  /\ Len(lines) = 10

\* C7: a commit never moves a name that items already holds, a name new to
\* items is placed after all the names it holds, and the projected items
\* list names the entities in the order of items.
C7_FirstCommitOrder ==
  [][ /\ \A i \in 1..Len(items) : i <= Len(items') /\ items'[i].k = items[i].k
      /\ pc' = "exported" =>
           [j \in 1..Len(output'.items) |-> output'.items[j].name] = DictKeys(items')
    ]_vars

\* A, then B, then A again were committed: A is still first
C7_Witness ==
  /\ pc = "exported"
  /\ \E p1, p2, p3 \in Opens :
       /\ p1 < p2 /\ p2 < p3
       /\ NameAt(p1) = nA /\ NameAt(p2) = nB /\ NameAt(p3) = nA
       /\ HasField(p1) /\ HasField(p2) /\ HasField(p3)
       /\ Collected(p1) # Collected(p3)
  /\ [j \in 1..Len(output.items) |-> output.items[j].name] = <<nA, nB>>


\* the open lines already read whose entity no line read so far has ended
CurrentOpens == {p \in Opens : p < pos /\ \A q \in Closers(p) : q >= pos}

\* the loop state is that of the one open span: its name and the fields of
\* the lines read since its open line; with no open span it is empty
SpanState ==
  IF CurrentOpens = {}
  THEN current_item_name = None /\ current_item_data = <<>>
  ELSE LET p == Max(CurrentOpens)
       IN  /\ current_item_name = NameAt(p)
           /\ current_item_data = CollectFrom(<<>>, p + 1, pos - 1)

\* the line read by this step ends the open span
EndsSpan ==
  /\ pc = "scan" /\ pos <= Len(lines)
  /\ current_item_name # None
  /\ IsItemOpen(lines[pos]) \/ IsTerminator(lines[pos])

\* C11: items changes only on the step that ends a span, and then by the
\* one record of that span, holding exactly the fields of the lines inside
\* it (nothing is written when there are none); after that step the
\* accumulator is empty, and after a terminator no entity is open; at every
\* moment the accumulator holds the fields of the current span only.
C11_SpanIsolation ==
  [][ /\ SpanState
      /\ EndsSpan =>
           LET p == Max(CurrentOpens)
           IN  /\ IF Len(Collected(p)) > 0
                  THEN /\ DictGet(items', NameAt(p), <<>>) = Collected(p)
                       /\ \A i \in 1..Len(items) :
                            items[i].k # NameAt(p) => items'[i] = items[i]
                       /\ Len(items') <= Len(items) + 1
                  ELSE items' = items
               /\ current_item_data' = <<>>
               /\ IsTerminator(lines[pos]) => current_item_name' = None
      /\ ~EndsSpan => items' = items
    ]_vars

\* a span with fields was ended by a re-open, the span opened there was
\* ended without fields by a terminator
C11_Witness ==
  /\ pc = "scan" /\ current_item_name = None
  /\ \E p, q \in Opens :
       /\ Ended(p) /\ HasField(p) /\ Closer(p) = q
       /\ Ended(q) /\ ~HasField(q) /\ IsTerminator(lines[Closer(q)])
       /\ Closer(q) = pos - 1
  /\ Len(items) = 1

\* the line at r is read while no entity is open
ReadClosed(r) == \A p \in Opens : p < r => (Closed(p) /\ Closer(p) < r)

\* C12: while no entity is open, a line that is not an entity-open line
\* (a field line and a terminator line included) leaves items, the open
\* entity and the accumulator as they are.
C12_ClosedLinesChangeNothing ==
  [][ (/\ pc = "scan" /\ pos <= Len(lines)
       /\ ReadClosed(pos)
       /\ ~(ItemNameMatch(lines[pos]) # None /\ CountBrackets(lines[pos]) = 1))
      => /\ UNCHANGED <<items, current_item_name, current_item_data>>
         /\ current_item_name = None
    ]_vars

\* after an entity was committed, a field line and then a terminator line
\* were read while no entity was open
C12_Witness ==
  /\ pc = "scan"
  /\ pos > 3
  /\ ReadClosed(pos - 2) /\ IsFieldLine(lines[pos - 2])
  /\ ReadClosed(pos - 1) /\ IsTerminator(lines[pos - 1])
  /\ \E p \in Opens : p < pos - 2
  /\ Len(items) > 0

\* C13: a step changes the record of a name that items holds only when it
\* commits under that name; a commit changes or adds the entry of the
\* committed name and no other; a field line changes no record.
C13_CommittedRecordsFrozen ==
  [][ /\ \A i \in 1..Len(items) :
           \/ (DictHas(items', items[i].k) /\ DictGet(items', items[i].k, <<>>) = items[i].v)
           \/ (EndsSpan /\ current_item_name = items[i].k)
      /\ \A j \in 1..Len(items') :
           \/ DictHas(items, items'[j].k)
           \/ (EndsSpan /\ current_item_name = items'[j].k)
      /\ (pc = "scan" /\ pos <= Len(lines) /\ IsFieldLine(lines[pos])) => items' = items
    ]_vars

\* B was committed and later lines of an open A with other fields were read
C13_Witness ==
  /\ pc = "scan"
  /\ DictHas(items, nB)
  /\ current_item_name = nA
  /\ Len(current_item_data) > 0
  /\ current_item_data # DictGet(items, nB, <<>>)
  /\ \E p \in EndedOpens(nA) : HasField(p)


\* after leading blanks the line starts with a quoted key followed by ' = {'
LeadShape(l) ==
  \E n \in 0..(Len(l) - 3) :
     /\ \A i \in 1..n : l[i] = SP
     /\ l[n + 1].t = "key" /\ l[n + 1].s # <<>>
     /\ l[n + 2] = EQ
     /\ l[n + 3] = LB

LeadName(l) ==
  LET n == CHOOSE n \in 0..(Len(l) - 3) :
             (\A i \in 1..n : l[i] = SP) /\ l[n + 1].t = "key"
  IN  l[n + 1].s

\* the number of '[' of the line: one for each quoted key and one for each
\* such character inside a key or a word
BracketTotal(l) ==
  Cardinality({i \in 1..Len(l) : l[i].t = "key"})
  + Cardinality({ij \in UNION {{<<i, j>> : j \in 1..Len(l[i].s)} : i \in 1..Len(l)} :
                   l[ij[1]].s[ij[2]] = "["})

\* C14: a line opens an entity exactly when it has the leading shape and
\* exactly one '['; opening commits the previous accumulator as it was and
\* starts the new entity empty; a line with the leading shape and more than
\* one '[' opens nothing and is read as a field line of the open entity.
C14_OpenNeedsSingleBracket ==
  [][ (pc = "scan" /\ pos <= Len(lines)) =>
        LET l == lines[pos]
            one == LeadShape(l) /\ BracketTotal(l) = 1
            more == LeadShape(l) /\ BracketTotal(l) > 1
        IN  /\ one =>
                 /\ current_item_name' = LeadName(l)
                 /\ current_item_data' = <<>>
                 /\ \/ items' = items
                    \/ /\ current_item_name # None
                       /\ DictGet(items', current_item_name, <<>>) = current_item_data
            /\ ~one =>
                 /\ current_item_name' \in {current_item_name, None}
                 /\ current_item_name' # current_item_name => IsTerminator(l)
            /\ more =>
                 /\ current_item_name' = current_item_name
                 /\ items' = items
                 /\ current_item_data' =
                      IF current_item_name # None
                      THEN ExtractFields(current_item_data, l)
                      ELSE current_item_data
    ]_vars

\* B is open and a line ["A"] = {["mr"] = 9}, was read as its field line
C14_Witness ==
  /\ pc = "scan" /\ pos > 2
  /\ LeadShape(lines[pos - 1]) /\ BracketTotal(lines[pos - 1]) = 2
  /\ LeadName(lines[pos - 1]) = nA
  /\ current_item_name = nB
  /\ DictGet(current_item_data, kMr, 0) = 9


FieldPatterns == {"lastScan", "mr", "H\\d+"}

\* the line r is the last line of the span of p that sets the field it sets
\* under the pattern
LastWrite(p, r, pattern) ==
  /\ SearchField(lines[r], pattern).ok
  /\ \A r2 \in Span(p) :
       (r2 > r /\ SearchField(lines[r2], pattern).ok)
          => SearchField(lines[r2], pattern).key # SearchField(lines[r], pattern).key

\* C15: the accumulator never holds a field name twice, and the record
\* committed for a span holds, for every field name set in the span, one
\* entry with the value of the last line that sets it.
C15_LastWriteWins ==
  /\ \A i, j \in 1..Len(current_item_data) :
       current_item_data[i].k = current_item_data[j].k => i = j
  /\ \A n \in Names :
       (EndedOpens(n) # {} /\ HasField(Max(EndedOpens(n)))) =>
          LET p == Max(EndedOpens(n))
              rec == DictGet(items, n, <<>>)
          IN  \A r \in Span(p) : \A pattern \in FieldPatterns :
                 LastWrite(p, r, pattern) =>
                    LET m == SearchField(lines[r], pattern)
                    IN  /\ Cardinality(Records(rec, m.key)) = 1
                        /\ DictGet(rec, m.key, 0 - 1) = ParseInt(m.val)

\* a span set mr twice, to 5 and then to 07, and was committed
C15_Witness ==
  /\ \E p \in Opens :
       /\ Ended(p) /\ p = Max(EndedOpens(NameAt(p)))
       /\ \E r1, r2 \in Span(p) :
            /\ r1 < r2
            /\ MrMatch(lines[r1]).ok /\ ParseInt(MrMatch(lines[r1]).val) = 5
            /\ MrMatch(lines[r2]).ok /\ ParseInt(MrMatch(lines[r2]).val) = 7
       /\ DictGet(DictGet(items, NameAt(p), <<>>), kMr, 0) = 7


\* braces opened minus braces closed before position p
NestingLevel(ts, p) ==
  Cardinality({q \in 1..(p - 1) : ts[q] = LB})
  - Cardinality({q \in 1..(p - 1) : ts[q] = RB})

\* the literal as one run of tokens
Literal == Join(lines)

\* positions of the literal where a quoted key is followed by ' = {'
KeyBracePositions(ts) ==
  {p \in 1..(Len(ts) - 2) :
     ts[p].t = "key" /\ ts[p].s # <<>> /\ ts[p + 1] = EQ /\ ts[p + 2] = LB}

\* those directly inside the literal's own braces
OutermostKeyBraces(ts) == {p \in KeyBracePositions(ts) : NestingLevel(ts, p) = 1}

\* after its opening brace the literal never closes more braces than it opened
BracesNest(ts) == \A p \in 2..Len(ts) : NestingLevel(ts, p) >= 1

\* C16: in a literal whose braces nest, the realm is the name
\* of the first quoted key followed by an opening brace at the outermost
\* nesting level, null when there is none, and no later line changes it.
C16_RealmIsFirstOutermostKey ==
  [][ (pc = "scan" /\ BracesNest(Literal)) =>
        /\ current_realm =
             IF OutermostKeyBraces(Literal) = {} THEN None
             ELSE Literal[Min(OutermostKeyBraces(Literal))].s
        /\ current_realm' = current_realm
        /\ pc' = "returned" => data'.realm = current_realm
    ]_vars


\* the parts of a price string between its blanks
RECURSIVE TierParts(_)
TierParts(str) ==
  LET blanks == {i \in 1..Len(str) : str[i] = " "}
  IN  IF blanks = {} THEN <<str>>
      ELSE <<SubSeq(str, 1, Min(blanks) - 1)>>
           \o TierParts(SubSeq(str, Min(blanks) + 1, Len(str)))

\* a part is a decimal number followed by its unit letter
IsTier(part) == Len(part) >= 2 /\ IsDigitStr(SubSeq(part, 1, Len(part) - 1))

Amount(part) == ParseInt(SubSeq(part, 1, Len(part) - 1))

Unit(part) == part[Len(part)]

\* C17: the price string of a non-negative copper amount shows
\* gold = copper div 10000, silver = (copper mod 10000) div 100 and
\* remainder = copper mod 100, which add up to copper with silver and
\* remainder below 100: all three tiers when gold > 0, silver and copper
\* when gold = 0 and silver > 0, copper alone when both are 0.
C17_CopperSplit ==
  shown # None =>
    LET gold == copper \div 10000
        silver == (copper % 10000) \div 100
        remainder == copper % 100
        parts == TierParts(shown)
        amounts == [i \in 1..Len(parts) |-> Amount(parts[i])]
        units == [i \in 1..Len(parts) |-> Unit(parts[i])]
    IN  /\ gold * 10000 + silver * 100 + remainder = copper
        /\ silver \in 0..99 /\ remainder \in 0..99
        /\ \A i \in 1..Len(parts) : IsTier(parts[i])
        /\ gold > 0 => units = <<"g", "s", "c">> /\ amounts = <<gold, silver, remainder>>
        /\ (gold = 0 /\ silver > 0) => units = <<"s", "c">> /\ amounts = <<silver, remainder>>
        /\ (gold = 0 /\ silver = 0) => units = <<"c">> /\ amounts = <<remainder>>

\* 20099 copper is shown with all three tiers, the silver tier being 0
C17_Witness ==
  /\ copper = 20099
  /\ shown = <<"2", "g", " ", "0", "s", " ", "9", "9", "c">>


\* the entities that no line of the literal ends
StillOpen == {p \in Opens : ~Closed(p)}

\* the fields of the lines from the open line p to the last line
CollectedToEnd(p) == CollectFrom(<<>>, p + 1, Len(lines))

\* C18: an entity still open after the last line of the literal is never
\* committed, even with fields: the returned items hold no record under its
\* name, unless an earlier occurrence of the name was ended, and then the
\* record is that of an ended occurrence.
C18_OpenAtEndNotCommitted ==
  Returned =>
    \A p \in StillOpen :
       LET n == NameAt(p)
       IN  /\ EndedOpens(n) = {} => Records(data.items, n) = {}
           /\ \A i \in Records(data.items, n) :
                \E q \in EndedOpens(n) : data.items[i].v = Collected(q)

\* returned: the entity still open after the last line has fields, and the
\* record of its name is that of the earlier, ended occurrence
C18_WitnessReopened ==
  /\ Returned
  /\ \E p \in StillOpen :
       /\ CollectedToEnd(p) # <<>>
       /\ current_item_name = NameAt(p)
       /\ current_item_data = CollectedToEnd(p)
       /\ EndedOpens(NameAt(p)) # {}
       /\ DictGet(data.items, NameAt(p), <<>>) # CollectedToEnd(p)

\* returned: the only occurrence of a name is still open with fields, and
\* the returned items are empty
C18_Witness ==
  /\ Returned
  /\ \E p \in StillOpen :
       /\ CollectedToEnd(p) # <<>>
       /\ EndedOpens(NameAt(p)) = {}
  /\ data.items = <<>>


\* the markers and the brace that the search of line 12 needs are in the file
LiteralInFile ==
  \E i \in 1..Len(content), j \in 1..Len(content) :
     /\ i + 1 < j - 2
     /\ content[i] = START /\ content[i + 1] = LB
     /\ content[j - 2] = RB /\ content[j - 1] = NL /\ content[j] = END

\* C19: when the literal is not found main stops before the export step and
\* writes no file; a file is written only after a parse that found the
\* literal.
C19_NoExportWithoutLiteral ==
  /\ output.written => (LiteralInFile /\ "items" \in data.keys)
  /\ (pc \in {"returned", "exported", "raised"} /\ ~LiteralInFile) =>
        (pc # "exported" /\ output = NoFile /\ data.keys = {})
  /\ pc = "raised" => (~LiteralInFile /\ output = NoFile)

\* main has stopped on a file without the literal, and nothing is written
C19_Witness ==
  /\ pc = "raised"
  /\ ~LiteralInFile
  /\ output = NoFile

====
